---- MODULE Spec2Model ----
(***************************************************************************)
(* A model of get_wf_magnetic_orderings                                    *)
(* (src/atomate/vasp/workflows/base/magnetism.py, lines 93-489).           *)
(*                                                                         *)
(* One run of the function is a state machine: pc is the position in the   *)
(* function body, the other variables are its arguments and locals.  The   *)
(* external collaborators (the magnetic-structure analyzer, the ordering   *)
(* transformation, the structure matcher) are modelled by the values they  *)
(* hand back, drawn from bounded sets.                                     *)
(*                                                                         *)
(* Structures are identified by naturals: 0 is the ferromagnetic           *)
(* structure, 1, 2, ... are the structures handed back by the enumeration  *)
(* in the order they are received, InputStructure is                       *)
(* input_analyzer.structure.  A Python optional value is a sequence:       *)
(* <<>> is None (or an unbound local), <<v>> is the value v.               *)
(***************************************************************************)
EXTENDS Integers, Sequences, FiniteSets, TLC

\* ------------------------------------------------------------------ bounds
\* largest candidate pool the enumeration may build (FM structure included)
MaxPool == 3
\* return_ranked_list passed to every transformation (num_orderings)
NumOrderings == 2
\* largest number of magnetic sites drawn for the primitive cell
MaxMagSites == 5
\* largest number of distinct magnetic species / coordination numbers drawn
MaxKinds == 2
\* largest max_cell_size a caller supplies
MaxCellArg == 1

\* ------------------------------------------------------- program constants
\* soft limit on symmetry-distinct magnetic sites (line 219)
UniqueSitesLimit == 8
\* numerator of the default max_cell_size rule (line 226)
CellSizeNumerator == 4

None == <<>>
Some(v) == <<v>>

Min(a, b) == IF a < b THEN a ELSE b
Max(a, b) == IF a > b THEN a ELSE b

VARIABLES
    pc,                     \* position in the function body
    error,                  \* the exception that ended the run, "" if none
    args,                   \* the arguments of the call, as passed
    max_cell_size,          \* local (parameter, reassigned at line 226)
    attempt_ferrimagnetic,  \* local (parameter, reassigned at lines 248-252)
    ordered_structures,     \* local: the candidate pool
    structures_to_add,      \* local: what the last transformation returned
    loop_todo,              \* items a for loop over cns / species has left
    calls,                  \* the transformations applied so far, in order
    structures_to_remove,   \* local: indices flagged by the duplicate loop
    matches,                \* outcomes of Structure.matches: pairs <<a, b>>
    input_matches,          \* structures input_analyzer.matches_ordering accepts
    indexes,                \* local
    debug_match_index,      \* local: <<>> while the name is unbound
    caller_incar,           \* contents of the caller's user_incar_settings dict
    fws,                    \* local: the Fireworks created so far
    analysis_parents,       \* local: positions in fws
    wf,                     \* the Workflow built from fws: [nodes, links]
    result                  \* the returned tuple, <<>> before the return

vars == <<pc, error, args, max_cell_size, attempt_ferrimagnetic,
          ordered_structures, structures_to_add, loop_todo, calls,
          structures_to_remove, matches, input_matches, indexes,
          debug_match_index, caller_incar, fws, analysis_parents, wf, result>>

enumVars == <<ordered_structures, structures_to_add, loop_todo, calls>>
dedupVars == <<structures_to_remove, matches>>
bookVars == <<input_matches, indexes, debug_match_index>>
graphVars == <<caller_incar, fws, analysis_parents, wf, result>>

\* ---------------------------------------------------------------- inputs
InputStructure == MaxPool

Orderings == {"NM", "FM", "AFM"}

\* what the two analyzers report about the input structure: the primitive
\* cell has mag_sites magnetic sites, unique_sites of them symmetry-distinct,
\* of `species` magnetic species and `elements` magnetic elements, in `cns`
\* distinct coordination numbers
StructureFacts ==
    { f \in [is_ordered : BOOLEAN, is_collinear : BOOLEAN, ordering : Orderings,
             mag_sites : 0..Max(MaxMagSites, UniqueSitesLimit + 1),
             unique_sites : 0..(UniqueSitesLimit + 1),
             species : 0..MaxKinds, elements : 0..MaxKinds, cns : 0..MaxKinds] :
        /\ f.unique_sites <= f.mag_sites
        /\ f.mag_sites <= Max(MaxMagSites, f.unique_sites)
        /\ f.elements <= f.species
        /\ f.species <= f.unique_sites
        /\ f.cns <= f.unique_sites
        /\ (f.mag_sites = 0) = (f.unique_sites = 0)
        /\ (f.mag_sites = 0) = (f.species = 0)
        /\ (f.mag_sites = 0) = (f.elements = 0)
        /\ (f.mag_sites = 0) = (f.cns = 0) }

\* vasp_input_set_kwargs: None, a dict without 'user_incar_settings', or a
\* dict that carries its own 'user_incar_settings'
KwargsKinds == {"None", "other", "user_incar_settings"}

Arguments ==
    [structure : StructureFacts,
     attempt_ferrimagnetic : {None, Some(TRUE), Some(FALSE)},
     attempt_afm_by_motif : BOOLEAN,
     max_cell_size : {None} \cup {Some(v) : v \in 0..MaxCellArg},
     vasp_input_set_kwargs : KwargsKinds]

\* the caller's own user_incar_settings dict before the call
CallerIncar == [EDIFF |-> 1]

\* the state of the locals when the function body is entered with a
InitLocals(a) ==
    /\ error = ""
    /\ args = a
    /\ max_cell_size = a.max_cell_size
    /\ attempt_ferrimagnetic = a.attempt_ferrimagnetic
    /\ structures_to_add = None
    /\ loop_todo = {}
    /\ calls = <<>>
    /\ structures_to_remove = <<>>
    /\ matches = {}
    /\ input_matches = {}
    /\ indexes = <<>>
    /\ debug_match_index = None
    /\ caller_incar = CallerIncar
    /\ fws = <<>>
    /\ analysis_parents = <<>>
    /\ wf = None
    /\ result = None

\* analyzer properties read at lines 210-214 and the set built at line 242
num_mag_sites == args.structure.mag_sites
num_unique_sites == args.structure.unique_sites
types_mag_species == 1..args.structure.species
types_mag_elements == 1..args.structure.elements
unique_cns == 1..args.structure.cns

Raise(e) ==
    /\ pc' = "raised"
    /\ error' = e

\* ------------------------------------------------------------ validation
\* lines 175-177
CheckOrdered ==
    /\ pc = "start"
    /\ IF ~args.structure.is_ordered
         THEN Raise("ValueError: ordered approximation")
         ELSE pc' = "collinear" /\ UNCHANGED error
    /\ UNCHANGED <<args, max_cell_size, attempt_ferrimagnetic, enumVars,
                   dedupVars, bookVars, graphVars>>

\* lines 183-192
CheckCollinear ==
    /\ pc = "collinear"
    /\ IF ~args.structure.is_collinear
         THEN Raise("ValueError: non-collinear")
         ELSE pc' = "unique_sites" /\ UNCHANGED error
    /\ UNCHANGED <<args, max_cell_size, attempt_ferrimagnetic, enumVars,
                   dedupVars, bookVars, graphVars>>

\* a check that also turns away exactly UniqueSitesLimit sites
TooManySitesInclusive(n) == n >= UniqueSitesLimit

TooManySites(n) == n > UniqueSitesLimit

\* lines 195-220
CheckUniqueSites ==
    /\ pc = "unique_sites"
    /\ IF TooManySites(num_unique_sites)
         THEN Raise("ValueError: too many magnetic sites")
         ELSE pc' = "max_cell_size" /\ UNCHANGED error
    /\ UNCHANGED <<args, max_cell_size, attempt_ferrimagnetic, enumVars,
                   dedupVars, bookVars, graphVars>>

\* the default without its lower bound of 1
DefaultCellSizeUnclamped(n) == CellSizeNumerator \div n

DefaultCellSize(n) == Max(1, CellSizeNumerator \div n)

\* line 226
SetMaxCellSize ==
    /\ pc = "max_cell_size"
    /\ IF max_cell_size # None /\ max_cell_size[1] # 0
         THEN pc' = "heuristic" /\ UNCHANGED <<error, max_cell_size>>
         ELSE IF num_mag_sites = 0
                THEN Raise("ZeroDivisionError") /\ UNCHANGED max_cell_size
                ELSE /\ max_cell_size' = Some(DefaultCellSize(num_mag_sites))
                     /\ pc' = "heuristic"
                     /\ UNCHANGED error
    /\ UNCHANGED <<args, attempt_ferrimagnetic, enumVars, dedupVars, bookVars,
                   graphVars>>

FerrimagneticHeuristic(cns, species) ==
    Cardinality(cns) > 1 \/ Cardinality(species) > 1

\* lines 233-252
ChooseStrategy ==
    /\ pc = "heuristic"
    /\ attempt_ferrimagnetic' =
         IF attempt_ferrimagnetic = None
           THEN Some(FerrimagneticHeuristic(unique_cns, types_mag_species))
           ELSE attempt_ferrimagnetic
    /\ pc' = "fm"
    /\ UNCHANGED <<error, args, max_cell_size, enumVars, dedupVars, bookVars,
                   graphVars>>

\* ----------------------------------------------------------- enumeration
\* MagOrderParameterConstraint (line 12): unused keywords are None
MagOrderParameterConstraint(order, species, name, sites) ==
    [order_parameter |-> order, species_constraints |-> species,
     site_constraint_name |-> name, site_constraints |-> sites]

\* what apply_transformation(structure, return_ranked_list=num_orderings) may
\* hand back when the next structure it builds is `first` and at most `room`
\* structures are drawn: nothing, one bare Structure, or a ranked list whose
\* entries are Structures or dicts holding one under "structure"
Returns(first, room) ==
    {[kind |-> "list", items |-> <<>>]}
    \cup (IF room >= 1 THEN {[kind |-> "Structure", structure |-> first]} ELSE {})
    \cup UNION { { [kind |-> "list",
                    items |-> [i \in 1..k |->
                                 [kind |-> IF w[i] THEN "dict" ELSE "Structure",
                                  structure |-> first + i - 1]]] :
                   w \in [1..k -> BOOLEAN] } :
                 k \in 1..Min(room, NumOrderings) }

\* a transformation whose failure is caught: the failure is noted and the run
\* goes on with nothing to add
EnumerateCatching(strategy, constraints, next) ==
    /\ calls' = Append(calls, [strategy |-> strategy,
                               order_parameter |-> constraints,
                               max_cell_size |-> max_cell_size[1],
                               return_ranked_list |-> NumOrderings])
    /\ \/ \E ret \in Returns(Len(ordered_structures),
                              MaxPool - Len(ordered_structures)) :
              /\ structures_to_add' = ret
              /\ pc' = next
              /\ UNCHANGED error
       \/ /\ error' = "GeneratorError"
          /\ structures_to_add' = [kind |-> "list", items |-> <<>>]
          /\ pc' = next

\* lines 291-296, 320-326, 349-355, 374-380: build the transformation and
\* apply it; a failure of the transformation is not caught
Enumerate(strategy, constraints, next) ==
    /\ calls' = Append(calls, [strategy |-> strategy,
                               order_parameter |-> constraints,
                               max_cell_size |-> max_cell_size[1],
                               return_ranked_list |-> NumOrderings])
    /\ \/ \E ret \in Returns(Len(ordered_structures),
                              MaxPool - Len(ordered_structures)) :
              /\ structures_to_add' = ret
              /\ pc' = next
              /\ UNCHANGED error
       \/ /\ Raise("GeneratorError")
          /\ UNCHANGED structures_to_add

\* a merge that puts the new structures in front of the pool
_add_structures_in_front(pool, to_add) ==
    IF to_add = None \/ to_add = [kind |-> "list", items |-> <<>>]
      THEN pool
      ELSE LET as_list == IF to_add.kind = "Structure" THEN <<to_add>>
                          ELSE to_add.items
               bare == [i \in 1..Len(as_list) |-> as_list[i].structure]
           IN  bare \o pool

\* lines 255-272
_add_structures(pool, to_add) ==
    IF to_add = None \/ to_add = [kind |-> "list", items |-> <<>>]
      THEN pool
      ELSE LET as_list == IF to_add.kind = "Structure" THEN <<to_add>>
                          ELSE to_add.items
               bare == [i \in 1..Len(as_list) |-> as_list[i].structure]
           IN  pool \o bare

\* lines 297-299, 328-331, 357-359, 382-385
AddStructures(next) ==
    /\ ordered_structures' = _add_structures(ordered_structures, structures_to_add)
    /\ pc' = next
    /\ UNCHANGED <<error, args, max_cell_size, attempt_ferrimagnetic,
                   structures_to_add, loop_todo, calls, dedupVars, bookVars,
                   graphVars>>

\* lines 275-282
SeedFerromagnetic ==
    /\ pc = "fm"
    /\ ordered_structures' = <<0>>
    /\ pc' = "afm"
    /\ UNCHANGED <<error, args, max_cell_size, attempt_ferrimagnetic,
                   structures_to_add, loop_todo, calls, dedupVars, bookVars,
                   graphVars>>

\* lines 285-296
AFMEnumerate ==
    /\ pc = "afm"
    /\ Enumerate("afm",
                 <<MagOrderParameterConstraint("0.5", types_mag_species, "", {})>>,
                 "afm_add")
    /\ UNCHANGED <<args, max_cell_size, attempt_ferrimagnetic,
                   ordered_structures, loop_todo, dedupVars, bookVars, graphVars>>

\* lines 297-299
AFMAdd ==
    /\ pc = "afm_add"
    /\ AddStructures("ferri")

\* the item a for loop takes next.  types_mag_species is a tuple, walked in
\* order.  unique_cns is a set: both loops over it walk the same unmodified
\* set object, hence in the same order, and the coordination numbers are
\* interchangeable labels here, so that order is taken to be the ascending one
NextItem(todo) == CHOOSE s \in todo : \A t \in todo : s <= t

FerriByMotif(attempt, unique_sites, elements) ==
    attempt /\ unique_sites > 1 /\ Cardinality(elements) = 1

FerriBySpecies(attempt, species) ==
    attempt /\ Cardinality(species) > 1

\* lines 303, 306, 334, 336: which ferrimagnetic loop is entered, if any
FerrimagneticBranch ==
    /\ pc = "ferri"
    /\ IF FerriByMotif(attempt_ferrimagnetic[1], num_unique_sites, types_mag_elements)
         THEN /\ loop_todo' = unique_cns
              /\ pc' = IF unique_cns = {} THEN "afm_motif_if" ELSE "ferri_motif"
         ELSE IF FerriBySpecies(attempt_ferrimagnetic[1], types_mag_species)
                THEN /\ loop_todo' = types_mag_species
                     /\ pc' = "ferri_species"
                ELSE /\ loop_todo' = {}
                     /\ pc' = "afm_motif_if"
    /\ UNCHANGED <<error, args, max_cell_size, attempt_ferrimagnetic,
                   ordered_structures, structures_to_add, calls, dedupVars,
                   bookVars, graphVars>>

\* lines 306-326: one pass of the loop over the set unique_cns
FerriMotifEnumerate ==
    /\ pc = "ferri_motif"
    /\ LET cn == NextItem(loop_todo)
       IN /\ loop_todo' = loop_todo \ {cn}
          /\ Enumerate("ferri_motif",
                       <<MagOrderParameterConstraint("0.5", {}, "cn", {cn}),
                         MagOrderParameterConstraint("1.0", {}, "cn",
                                                     unique_cns \ {cn})>>,
                       "ferri_motif_add")
    /\ UNCHANGED <<args, max_cell_size, attempt_ferrimagnetic,
                   ordered_structures, dedupVars, bookVars, graphVars>>

\* lines 328-331
FerriMotifAdd ==
    /\ pc = "ferri_motif_add"
    /\ AddStructures(IF loop_todo = {} THEN "afm_motif_if" ELSE "ferri_motif")

\* lines 336-355: one pass of the loop over the tuple types_mag_species
FerriSpeciesEnumerate ==
    /\ pc = "ferri_species"
    /\ LET sp == NextItem(loop_todo)
       IN  /\ loop_todo' = loop_todo \ {sp}
           /\ Enumerate("ferri_species",
                        <<MagOrderParameterConstraint("0.5", {sp}, "", {}),
                          MagOrderParameterConstraint("1.0",
                                                      types_mag_species \ {sp},
                                                      "", {})>>,
                        "ferri_species_add")
    /\ UNCHANGED <<args, max_cell_size, attempt_ferrimagnetic,
                   ordered_structures, dedupVars, bookVars, graphVars>>

\* lines 357-359
FerriSpeciesAdd ==
    /\ pc = "ferri_species_add"
    /\ AddStructures(IF loop_todo = {} THEN "afm_motif_if" ELSE "ferri_species")

\* lines 364-365
AFMMotifBranch ==
    /\ pc = "afm_motif_if"
    /\ IF args.attempt_afm_by_motif /\ unique_cns # {}
         THEN loop_todo' = unique_cns /\ pc' = "afm_motif"
         ELSE loop_todo' = {} /\ pc' = "dedup"
    /\ UNCHANGED <<error, args, max_cell_size, attempt_ferrimagnetic,
                   ordered_structures, structures_to_add, calls, dedupVars,
                   bookVars, graphVars>>

\* lines 365-380: one pass of the loop over the set unique_cns
AFMMotifEnumerate ==
    /\ pc = "afm_motif"
    /\ LET cn == NextItem(loop_todo)
       IN /\ loop_todo' = loop_todo \ {cn}
          /\ Enumerate("afm_motif",
                       <<MagOrderParameterConstraint("0.5", {}, "cn", {cn})>>,
                       "afm_motif_add")
    /\ UNCHANGED <<args, max_cell_size, attempt_ferrimagnetic,
                   ordered_structures, dedupVars, bookVars, graphVars>>

\* lines 382-385
AFMMotifAdd ==
    /\ pc = "afm_motif_add"
    /\ AddStructures(IF loop_todo = {} THEN "dedup" ELSE "afm_motif")

\* the call enters the function body with any arguments; vasp_input_set_kwargs
\* and the ordering of the input are not read before the duplicate removal
InitEnum ==
    /\ pc = "start"
    /\ ordered_structures = <<>>
    /\ \E a \in Arguments :
          /\ a.structure.ordering = "FM"
          /\ a.vasp_input_set_kwargs = "None"
          /\ InitLocals(a)

NextEnum ==
    \/ CheckOrdered
    \/ CheckCollinear
    \/ CheckUniqueSites
    \/ SetMaxCellSize
    \/ ChooseStrategy
    \/ SeedFerromagnetic
    \/ AFMEnumerate
    \/ AFMAdd
    \/ FerrimagneticBranch
    \/ FerriMotifEnumerate
    \/ FerriMotifAdd
    \/ FerriSpeciesEnumerate
    \/ FerriSpeciesAdd
    \/ AFMMotifBranch
    \/ AFMMotifEnumerate
    \/ AFMMotifAdd

SpecEnum == InitEnum /\ [][NextEnum]_vars

\* ----------------------------------------------------- duplicate removal
Range(seq) == {seq[i] : i \in 1..Len(seq)}

\* a duplicate loop that also examines the structures already flagged
RECURSIVE FlagDuplicatesOfAll(_, _, _, _)
FlagDuplicatesOfAll(pool, m, idx, flagged) ==
    IF idx >= Len(pool) THEN flagged
    ELSE LET hit(k) == <<pool[idx + 1], pool[k]>> \in m /\ k - 1 # idx
             found == SelectSeq([k \in 1..Len(pool) |-> k], hit)
         IN  FlagDuplicatesOfAll(pool, m, idx + 1,
                                 flagged \o [k \in 1..Len(found) |-> found[k] - 1])

\* a duplicate loop that flags only the first match of each structure
RECURSIVE FlagFirstDuplicate(_, _, _, _)
FlagFirstDuplicate(pool, m, idx, flagged) ==
    IF idx >= Len(pool) THEN flagged
    ELSE IF idx \in Range(flagged)
      THEN FlagFirstDuplicate(pool, m, idx + 1, flagged)
      ELSE LET hit(k) == <<pool[idx + 1], pool[k]>> \in m /\ k - 1 # idx
               found == SelectSeq([k \in 1..Len(pool) |-> k], hit)
           IN  FlagFirstDuplicate(pool, m, idx + 1,
                                  IF found = <<>> THEN flagged
                                  ELSE Append(flagged, found[1] - 1))

\* a duplicate loop that compares each structure with the later ones only
RECURSIVE FlagLaterDuplicates(_, _, _, _)
FlagLaterDuplicates(pool, m, idx, flagged) ==
    IF idx >= Len(pool) THEN flagged
    ELSE IF idx \in Range(flagged)
      THEN FlagLaterDuplicates(pool, m, idx + 1, flagged)
      ELSE LET hit(k) == <<pool[idx + 1], pool[k]>> \in m /\ k - 1 > idx
               found == SelectSeq([k \in 1..Len(pool) |-> k], hit)
           IN  FlagLaterDuplicates(pool, m, idx + 1,
                                   flagged \o [k \in 1..Len(found) |-> found[k] - 1])

\* lines 388-394: the loop from position idx on, `flagged` being
\* structures_to_remove so far; positions are counted from 0 as in the code
RECURSIVE FlagDuplicates(_, _, _, _)
FlagDuplicates(pool, m, idx, flagged) ==
    IF idx >= Len(pool) THEN flagged
    ELSE IF idx \in Range(flagged)
      THEN FlagDuplicates(pool, m, idx + 1, flagged)
      ELSE LET hit(k) == <<pool[idx + 1], pool[k]>> \in m /\ k - 1 # idx
               found == SelectSeq([k \in 1..Len(pool) |-> k], hit)
           IN  FlagDuplicates(pool, m, idx + 1,
                              flagged \o [k \in 1..Len(found) |-> found[k] - 1])

\* lines 396-399
RemoveFlagged(pool, flagged) ==
    LET kept(k) == (k - 1) \notin Range(flagged)
        positions == SelectSeq([k \in 1..Len(pool) |-> k], kept)
    IN  [k \in 1..Len(positions) |-> pool[positions[k]]]

\* the answers Structure.matches may give on a pool: any set of ordered pairs
\* of distinct members (the answer on a structure and itself is not used)
MatcherOutcomes(pool) ==
    SUBSET {p \in Range(pool) \X Range(pool) : p[1] # p[2]}

\* lines 387-399
RemoveDuplicates ==
    /\ pc = "dedup"
    /\ \E m \in MatcherOutcomes(ordered_structures) :
          LET flagged == FlagDuplicates(ordered_structures, m, 0, <<>>)
          IN  /\ matches' = m
              /\ structures_to_remove' = flagged
              /\ ordered_structures' = RemoveFlagged(ordered_structures, flagged)
    /\ pc' = "bookkeeping"
    /\ UNCHANGED <<error, args, max_cell_size, attempt_ferrimagnetic,
                   structures_to_add, loop_todo, calls, bookVars, graphVars>>

\* ------------------------------------------------------------ provenance
\* a lookup that reports the last match
LastMatch(pool, accepted) ==
    CHOOSE i \in 0..(Len(pool) - 1) :
       /\ pool[i + 1] \in accepted
       /\ \A j \in 0..(Len(pool) - 1) : pool[j + 1] \in accepted => j <= i

\* line 423: matches.index(True)
FirstMatch(pool, accepted) ==
    CHOOSE i \in 0..(Len(pool) - 1) :
       /\ pool[i + 1] \in accepted
       /\ \A j \in 0..(Len(pool) - 1) : pool[j + 1] \in accepted => i <= j

\* lines 407-423; input_analyzer.matches_ordering may accept any of the pool
BookKeeping ==
    /\ pc = "bookkeeping"
    /\ LET range == [k \in 1..Len(ordered_structures) |-> k - 1]
       IN  IF args.structure.ordering # "NM"
             THEN \E accepted \in SUBSET Range(ordered_structures) :
                    /\ input_matches' = accepted
                    /\ IF accepted = {}
                         THEN /\ ordered_structures' =
                                    Append(ordered_structures, InputStructure)
                              /\ indexes' = Append(range, -1)
                              /\ debug_match_index' = Some(-1)
                         ELSE /\ debug_match_index' =
                                    Some(FirstMatch(ordered_structures, accepted))
                              /\ indexes' = range
                              /\ UNCHANGED ordered_structures
             ELSE /\ indexes' = range
                  /\ UNCHANGED <<ordered_structures, input_matches,
                                 debug_match_index>>
    /\ pc' = "fws"
    /\ UNCHANGED <<error, args, max_cell_size, attempt_ferrimagnetic,
                   structures_to_add, loop_todo, calls, dedupVars, graphVars>>

\* ------------------------------------------------------------- Fireworks
\* what CollinearMagneticStructureAnalyzer(s).ordering may be for a pool
\* member: the input structure keeps the ordering input_analyzer found, the
\* ferromagnetic structure is non-magnetic only without magnetic sites
OrderingsOf(s) ==
    IF s = InputStructure THEN {args.structure.ordering}
    ELSE IF s = 0 THEN (IF num_mag_sites = 0 THEN {"NM"} ELSE {"FM"})
    ELSE Orderings

\* fws[0]
FirstFirework(f) == 1

\* fws[-1] (lines 461, 463), as a position in fws
LastFirework(f) == Len(f)

\* lines 437-445: the dict under relax_vis_kwargs['user_incar_settings'] once
\* the loop body has updated it; with the caller's own user_incar_settings it
\* is the caller's dict object
UserIncarSettings(ordering) ==
    LET settings == IF args.vasp_input_set_kwargs = "user_incar_settings"
                      THEN caller_incar
                      ELSE [ISYM |-> 0, LASPH |-> TRUE]
    IN  IF ordering = "NM" THEN ("ISPIN" :> 1) @@ settings ELSE settings

\* lines 430-463: one pass of the loop; the input set is built from the
\* settings as they are at line 447
BuildFireworks ==
    /\ pc = "fws"
    /\ Len(fws) < 2 * Len(ordered_structures)
    /\ LET idx == Len(fws) \div 2
           ordered_structure == ordered_structures[idx + 1]
       IN  \E ordering \in OrderingsOf(ordered_structure) :
             LET incar == UserIncarSettings(ordering)
                 optimize == [name |-> "optimize", index |-> indexes[idx + 1],
                              ordering |-> ordering,
                              structure |-> ordered_structure,
                              user_incar_settings |-> incar, parents |-> {}]
                 relaxed == Append(fws, optimize)
                 static == [name |-> "static", index |-> indexes[idx + 1],
                            ordering |-> ordering,
                            structure |-> ordered_structure,
                            user_incar_settings |-> <<>>,
                            parents |-> {LastFirework(relaxed)}]
                 both == Append(relaxed, static)
             IN  /\ fws' = both
                 /\ analysis_parents' = Append(analysis_parents, LastFirework(both))
                 /\ caller_incar' =
                       IF args.vasp_input_set_kwargs = "user_incar_settings"
                         THEN incar ELSE caller_incar
    /\ UNCHANGED <<pc, error, args, max_cell_size, attempt_ferrimagnetic,
                   enumVars, dedupVars, bookVars, wf, result>>

\* lines 465-474
AnalysisFirework ==
    /\ pc = "fws"
    /\ Len(fws) = 2 * Len(ordered_structures)
    /\ fws' = Append(fws, [name |-> "analysis", index |-> -1, ordering |-> "",
                           structure |-> -1, user_incar_settings |-> <<>>,
                           parents |-> Range(analysis_parents)])
    /\ pc' = "workflow"
    /\ UNCHANGED <<error, args, max_cell_size, attempt_ferrimagnetic, enumVars,
                   dedupVars, bookVars, caller_incar, analysis_parents, wf,
                   result>>

\* lines 476-487: Workflow(fws) links every Firework to its parents
BuildWorkflow ==
    /\ pc = "workflow"
    /\ wf' = Some([nodes |-> 1..Len(fws),
                   links |-> {l \in (1..Len(fws)) \X (1..Len(fws)) :
                                l[1] \in fws[l[2]].parents}])
    /\ pc' = "return"
    /\ UNCHANGED <<error, args, max_cell_size, attempt_ferrimagnetic, enumVars,
                   dedupVars, bookVars, caller_incar, fws, analysis_parents,
                   result>>

\* line 489: reading a local that was never assigned raises UnboundLocalError
Return ==
    /\ pc = "return"
    /\ IF debug_match_index = None
         THEN Raise("UnboundLocalError") /\ UNCHANGED result
         ELSE /\ result' = Some([wf |-> wf[1],
                                 debug_match_index |-> debug_match_index[1],
                                 ordered_structures |-> ordered_structures])
              /\ pc' = "returned"
              /\ UNCHANGED error
    /\ UNCHANGED <<args, max_cell_size, attempt_ferrimagnetic, enumVars,
                   dedupVars, bookVars, caller_incar, fws, analysis_parents, wf>>

\* ---------------------------------------------------------- specifications
\* arguments for which the body reaches the duplicate removal after a single
\* antiferromagnetic enumeration: an ordered collinear input of one magnetic
\* species in one environment, or one without magnetic sites and with
\* max_cell_size supplied
PlainArguments ==
    {a \in Arguments :
       /\ a.structure.is_ordered
       /\ a.structure.is_collinear
       /\ a.structure.mag_sites <= 1
       /\ a.attempt_ferrimagnetic = None
       /\ ~a.attempt_afm_by_motif
       /\ a.max_cell_size = IF a.structure.mag_sites = 0 THEN Some(1) ELSE None}

\* the state in which such a run reaches the duplicate removal with a pool of
\* k structures, the antiferromagnetic enumeration having returned k - 1
Enumerated(a, k) ==
    /\ error = ""
    /\ args = a
    /\ max_cell_size = IF a.max_cell_size # None THEN a.max_cell_size
                       ELSE Some(DefaultCellSize(a.structure.mag_sites))
    /\ attempt_ferrimagnetic = Some(FALSE)
    /\ ordered_structures = [i \in 1..k |-> i - 1]
    /\ structures_to_add =
          [kind |-> "list",
           items |-> [i \in 1..(k - 1) |-> [kind |-> "Structure", structure |-> i]]]
    /\ loop_todo = {}
    /\ calls = <<[strategy |-> "afm",
                  order_parameter |->
                     <<MagOrderParameterConstraint("0.5", 1..a.structure.species,
                                                   "", {})>>,
                  max_cell_size |-> IF a.max_cell_size # None
                                      THEN a.max_cell_size[1]
                                      ELSE DefaultCellSize(a.structure.mag_sites),
                  return_ranked_list |-> NumOrderings]>>
    /\ structures_to_remove = <<>>
    /\ matches = {}
    /\ input_matches = {}
    /\ indexes = <<>>
    /\ debug_match_index = None
    /\ caller_incar = CallerIncar
    /\ fws = <<>>
    /\ analysis_parents = <<>>
    /\ wf = None
    /\ result = None

PoolSizes == 1..Min(MaxPool, NumOrderings + 1)

\* the duplicate removal and the book-keeping, on every pool and every
\* outcome of the two matchers
InitDedup ==
    /\ pc = "dedup"
    /\ \E a \in PlainArguments, k \in PoolSizes :
          /\ a.vasp_input_set_kwargs = "None"
          /\ Enumerated(a, k)

NextDedup ==
    \/ RemoveDuplicates
    \/ BookKeeping

SpecDedup == InitDedup /\ [][NextDedup]_vars

\* the book-keeping and the construction of the workflow, on every pool
\* (here one the duplicate removal left as it was) and every classification
InitGraph ==
    /\ pc = "bookkeeping"
    /\ \E a \in PlainArguments, k \in PoolSizes : Enumerated(a, k)

NextGraph ==
    \/ BookKeeping
    \/ BuildFireworks
    \/ AnalysisFirework
    \/ BuildWorkflow
    \/ Return

SpecGraph == InitGraph /\ [][NextGraph]_vars

\* the whole run; SpecEnum, SpecDedup and SpecGraph are its three phases, the
\* later two entered in states the phase before hands over
Init ==
    /\ pc = "start"
    /\ ordered_structures = <<>>
    /\ \E a \in Arguments : InitLocals(a)

Next == NextEnum \/ NextDedup \/ NextGraph

Spec == Init /\ [][Next]_vars

\* ------------------------------------------------- claims on enumeration
ValidationErrors == {"ValueError: ordered approximation",
                     "ValueError: non-collinear",
                     "ValueError: too many magnetic sites"}

BeforeValidation == {"start", "collinear", "unique_sites"}

\* C6: a validation failure is raised before any transformation is applied
\* and before any Firework exists; an unordered input fails as unordered
\* whatever else is wrong with it, an ordered non-collinear input fails as
\* non-collinear, an ordered collinear input fails the size check exactly when
\* it has more than 8 symmetry-distinct magnetic sites (8 itself passes).
ValidationOrder ==
    /\ error \in ValidationErrors =>
          calls = <<>> /\ fws = <<>> /\ ordered_structures = <<>>
    /\ pc \notin BeforeValidation =>
          /\ (error = "ValueError: ordered approximation")
                = ~args.structure.is_ordered
          /\ (error = "ValueError: non-collinear")
                = (args.structure.is_ordered /\ ~args.structure.is_collinear)
          /\ (error = "ValueError: too many magnetic sites")
                = (/\ args.structure.is_ordered
                   /\ args.structure.is_collinear
                   /\ args.structure.unique_sites >= 9)

\* an input wrong in all three ways was turned away as unordered
ValidationOrderWitness ==
    /\ error = "ValueError: ordered approximation"
    /\ ~args.structure.is_collinear
    /\ args.structure.unique_sites > 8

CallsOf(strategy) == {i \in 1..Len(calls) : calls[i].strategy = strategy}

\* the coordination numbers / species the 0.5 constraints of a strategy name
HalfTargets(strategy) ==
    {IF calls[i].order_parameter[1].site_constraint_name = "cn"
       THEN calls[i].order_parameter[1].site_constraints
       ELSE calls[i].order_parameter[1].species_constraints :
     i \in CallsOf(strategy)}

OneCallPer(strategy, items) ==
    /\ Cardinality(CallsOf(strategy)) = Cardinality(items)
    /\ HalfTargets(strategy) = {{x} : x \in items}

\* ferrimagnetic enumeration is on: the override if given, else the heuristic
FerrimagneticActive ==
    IF args.attempt_ferrimagnetic # None
      THEN args.attempt_ferrimagnetic[1]
      ELSE args.structure.cns > 1 \/ args.structure.species > 1

\* The transformations the code applies (the behaviour C7 is measured
\* against): one antiferromagnetic call; with ferrimagnetic active, one
\* by-environment call per coordination number exactly when there is one
\* magnetic element and more than one symmetry-distinct magnetic site,
\* otherwise one by-species call per species exactly when there are several
\* species; one antiferromagnetic by-environment call per coordination number
\* exactly when attempt_afm_by_motif is set.
StrategyCalls ==
    pc = "dedup" =>
      LET byMotif == /\ FerrimagneticActive
                     /\ args.structure.elements = 1
                     /\ args.structure.unique_sites > 1
          bySpecies == /\ FerrimagneticActive
                       /\ ~byMotif
                       /\ args.structure.species > 1
      IN  /\ Cardinality(CallsOf("afm")) = 1
          /\ calls[1].strategy = "afm"
          /\ OneCallPer("ferri_motif", IF byMotif THEN unique_cns ELSE {})
          /\ OneCallPer("ferri_species",
                        IF bySpecies THEN types_mag_species ELSE {})
          /\ OneCallPer("afm_motif",
                        IF args.attempt_afm_by_motif THEN unique_cns ELSE {})
          /\ Len(calls) = Cardinality(CallsOf("afm") \cup CallsOf("ferri_motif")
                             \cup CallsOf("ferri_species") \cup CallsOf("afm_motif"))

\* C7: once the enumeration is complete the transformations applied are
\* fixed by the number E of coordination numbers, the number S of magnetic
\* species and the two flags: one antiferromagnetic call; with ferrimagnetic
\* active (the override if given, else E > 1 or S > 1), one by-environment
\* call per coordination number exactly when S = 1 and E > 1 and one
\* by-species call per species exactly when S > 1; one antiferromagnetic
\* by-environment call per coordination number exactly when
\* attempt_afm_by_motif is set.
StrategyCallsBySpeciesCount ==
    pc = "dedup" =>
      LET byMotif == /\ FerrimagneticActive
                     /\ args.structure.species = 1
                     /\ args.structure.cns > 1
          bySpecies == FerrimagneticActive /\ args.structure.species > 1
      IN  /\ Cardinality(CallsOf("afm")) = 1
          /\ OneCallPer("ferri_motif", IF byMotif THEN unique_cns ELSE {})
          /\ OneCallPer("ferri_species",
                        IF bySpecies THEN types_mag_species ELSE {})
          /\ OneCallPer("afm_motif",
                        IF args.attempt_afm_by_motif THEN unique_cns ELSE {})

\* the bare structures of a transformation's return, in rank order
BareStructures(ret) ==
    IF ret = None THEN <<>>
    ELSE IF ret.kind = "Structure" THEN <<ret.structure>>
    ELSE [i \in 1..Len(ret.items) |-> ret.items[i].structure]

StrategyRank(strategy) ==
    CASE strategy = "afm" -> 1
      [] strategy \in {"ferri_motif", "ferri_species"} -> 2
      [] strategy = "afm_motif" -> 3

Merging == {"afm_add", "ferri_motif_add", "ferri_species_add", "afm_motif_add"}
Seeded == {"afm", "ferri", "ferri_motif", "ferri_species", "afm_motif_if",
           "afm_motif", "dedup"} \cup Merging

\* C8: from the seeding to the duplicate removal the pool starts with the
\* ferromagnetic structure and holds after it the structures received so
\* far, each once, in the order received (structures are numbered as they
\* are received); the transformations are applied antiferromagnetic first,
\* ferrimagnetic next, antiferromagnetic by environment last; once a return
\* is merged the pool ends with exactly its bare structures in rank order,
\* whether it was a bare structure, a list of structures or a list of dicts,
\* and an empty return leaves the pool as it was.
PoolLayout ==
    pc \in Seeded =>
      /\ Len(ordered_structures) >= 1
      /\ ordered_structures[1] = 0
      /\ \A i \in 1..Len(ordered_structures) : ordered_structures[i] = i - 1
      /\ \A i, j \in 1..Len(calls) :
            i < j => StrategyRank(calls[i].strategy) <= StrategyRank(calls[j].strategy)
      /\ LET bare == BareStructures(structures_to_add)
             n == Len(ordered_structures)
         IN  IF pc \in Merging
               THEN \A i \in 1..Len(bare) : bare[i] = n + i - 1
               ELSE /\ Len(bare) < n
                    /\ \A i \in 1..Len(bare) :
                          ordered_structures[n - Len(bare) + i] = bare[i]

\* a full pool built from two strategies, the last return a list of one dict
PoolLayoutWitness ==
    /\ pc = "dedup"
    /\ Len(ordered_structures) = MaxPool
    /\ \E i \in 1..Len(calls) : calls[i].strategy # "afm"
    /\ structures_to_add = [kind |-> "list",
                            items |-> <<[kind |-> "dict",
                                         structure |-> MaxPool - 1]>>]

\* C9 as amended: every transformation of the run is given, when
\* max_cell_size is not supplied or is supplied as 0, the bound
\* max(1, floor(4 / n)) for the n magnetic sites of the sanitized structure,
\* an integer from 1 to 4; and otherwise the supplied value, unchanged.
CellSizePassed ==
    \A i \in 1..Len(calls) :
       IF args.max_cell_size = None \/ args.max_cell_size = Some(0)
         THEN /\ calls[i].max_cell_size
                   = Max(1, 4 \div args.structure.mag_sites)
              /\ calls[i].max_cell_size \in 1..4
         ELSE calls[i].max_cell_size = args.max_cell_size[1]

\* no max_cell_size, more magnetic sites than 4: the bound passed is 1
CellSizePassedWitness ==
    /\ args.max_cell_size = None
    /\ args.structure.mag_sites > 4
    /\ Len(calls) >= 2
    /\ \A i \in 1..Len(calls) : calls[i].max_cell_size = 1

\* C9: every transformation of the run is given max(1, floor(4 / n)) when
\* max_cell_size is not supplied, and the supplied value, whatever it is,
\* when it is supplied.
CellSizeSuppliedUnchanged ==
    \A i \in 1..Len(calls) :
       IF args.max_cell_size = None
         THEN calls[i].max_cell_size
                 = Max(1, 4 \div args.structure.mag_sites)
         ELSE calls[i].max_cell_size = args.max_cell_size[1]

\* C12: no two calls of a run submit the same list of constraints; and once
\* a call of the generator has failed the run has ended with the generator's
\* failure as its own: that call is the last one made, no step of the
\* enumeration, of the duplicate removal, of the book-keeping or of the
\* construction of the workflow can be taken, nothing was flagged, indexed,
\* looked up or built, and no workflow is returned.
GeneratorFailureAborts ==
    /\ \A i, j \in 1..Len(calls) :
          i # j => calls[i].order_parameter # calls[j].order_parameter
    /\ error = "GeneratorError" =>
          /\ pc = "raised"
          /\ calls # <<>>
          /\ ~ENABLED Next
          /\ structures_to_remove = <<>> /\ matches = {}
          /\ indexes = <<>> /\ input_matches = {} /\ debug_match_index = None
          /\ fws = <<>> /\ analysis_parents = <<>>
          /\ wf = None /\ result = None

\* the generator failed in the second pass of a loop, after two calls whose
\* structures were merged, with a constraint list still to be submitted
GeneratorFailureAbortsWitness ==
    /\ error = "GeneratorError"
    /\ Len(calls) = 3
    /\ calls[3].strategy = "ferri_species"
    /\ Len(ordered_structures) >= 2
    /\ args.attempt_afm_by_motif

\* ---------------------------------------- claims on the duplicate removal
Symmetric(m) == \A p \in m : <<p[2], p[1]>> \in m

Transitive(m) ==
    \A p, q \in m : (p[2] = q[1] /\ p[1] # q[2]) => <<p[1], q[2]>> \in m

Equivalent(m, a, b) == <<a, b>> \in m \/ <<b, a>> \in m

\* the survivors are the members of old that new holds, in their old order
KeepsOrder(old, new) ==
    LET kept(s) == s \in Range(new)
    IN  new = SelectSeq(old, kept)

\* every removed entry is reported equivalent to a survivor before it
EarlierSurvivor(old, new, m) ==
    \A i \in 1..Len(old) :
       old[i] \notin Range(new) =>
          \E j \in 1..(i - 1) :
             old[j] \in Range(new) /\ Equivalent(m, old[j], old[i])

\* of two entries reported equivalent the later one is not retained
LaterNotRetained(old, new, m) ==
    \A i, j \in 1..Len(old) :
       (i < j /\ Equivalent(m, old[i], old[j])) => old[j] \notin Range(new)

\* two entries reported equivalent are never both retained
NotBothRetained(old, new, m) ==
    \A i, j \in 1..Len(old) :
       (i < j /\ Equivalent(m, old[i], old[j])) =>
          ~(old[i] \in Range(new) /\ old[j] \in Range(new))

\* C4 as amended: on every pool the duplicate removal leaves the survivors in
\* their original relative order; and for every symmetric outcome relation of
\* the matcher (transitivity not assumed) every entry it removes is reported
\* equivalent to a surviving entry at a smaller index and two entries reported
\* equivalent are never both retained; when the relation is transitive as
\* well, of two entries reported equivalent the later one is never retained.
KeepsEarliest ==
    [][pc = "dedup" =>
         /\ KeepsOrder(ordered_structures, ordered_structures')
         /\ Symmetric(matches') =>
              /\ EarlierSurvivor(ordered_structures, ordered_structures', matches')
              /\ NotBothRetained(ordered_structures, ordered_structures', matches')
              /\ Transitive(matches') =>
                    LaterNotRetained(ordered_structures, ordered_structures',
                                     matches')]_vars

\* a symmetric matcher that is not transitive: of three structures the middle
\* one, equivalent to both others, was removed and the outer two were kept
KeepsEarliestWitness ==
    /\ pc = "bookkeeping"
    /\ Symmetric(matches)
    /\ ~Transitive(matches)
    /\ Range(structures_to_remove) = {1}
    /\ ordered_structures = <<0, 2>>

\* C4: for every outcome relation of the matcher, symmetric or not, the
\* survivors keep their order, every removed entry is reported equivalent to
\* a surviving entry at a smaller index, and of two entries reported
\* equivalent the later one is not retained.
KeepsEarliestAnyMatcher ==
    [][pc = "dedup" =>
         /\ KeepsOrder(ordered_structures, ordered_structures')
         /\ EarlierSurvivor(ordered_structures, ordered_structures', matches')
         /\ LaterNotRetained(ordered_structures, ordered_structures',
                             matches')]_vars

\* C5: for every pool and every outcome relation of the matcher, running the
\* duplicate loop on the pool it produced flags nothing and leaves that pool
\* as it is.
DedupIdempotent ==
    pc = "bookkeeping" =>
       LET again == FlagDuplicates(ordered_structures, matches, 0, <<>>)
       IN  /\ again = <<>>
           /\ RemoveFlagged(ordered_structures, again) = ordered_structures

\* a matcher that is not symmetric removed something and left two or more
DedupIdempotentWitness ==
    /\ pc = "bookkeeping"
    /\ ~Symmetric(matches)
    /\ structures_to_remove # <<>>
    /\ Len(ordered_structures) >= 2

\* -------------------------------------------- claims on the book-keeping
\* C3: with an input that is not non-magnetic the book-keeping binds
\* debug_match_index; if input_analyzer accepts a pool member the pool is left
\* as it is and the index is the smallest position of an accepted member;
\* if it accepts none the input structure is appended last, the index is -1
\* and the pool is one longer than before.
ProvenanceIndex ==
    [][(pc = "bookkeeping" /\ args.structure.ordering # "NM") =>
         LET old == ordered_structures
             new == ordered_structures'
             found == {i \in 0..(Len(old) - 1) : old[i + 1] \in input_matches'}
         IN  /\ debug_match_index' # None
             /\ IF found # {}
                  THEN /\ new = old
                       /\ debug_match_index'[1] \in found
                       /\ \A i \in found : debug_match_index'[1] <= i
                       /\ debug_match_index'[1] < Len(new)
                  ELSE /\ new = Append(old, InputStructure)
                       /\ Len(new) = Len(old) + 1
                       /\ new[Len(new)] = InputStructure
                       /\ debug_match_index'[1] = -1]_vars

\* two pool members accepted, neither of them the first: the index is 1
ProvenanceIndexWitness ==
    /\ pc = "fws"
    /\ args.structure.ordering # "NM"
    /\ input_matches = {1, 2}
    /\ debug_match_index = Some(1)
    /\ ordered_structures = <<0, 1, 2>>

\* ------------------------------------------------ claims on the final pool
\* the pairs of distinct members of pool that m reports equivalent
ReportedPairs(pool, m) ==
    {p \in (1..Len(pool)) \X (1..Len(pool)) :
        p[1] # p[2] /\ <<pool[p[1]], pool[p[2]]>> \in m}

\* the pairs Structure.matches was not asked about: lines 409-416 put the
\* question about the input structure to input_analyzer.matches_ordering
PairsNotAsked(pool) ==
    {p \in Range(pool) \X Range(pool) :
        p[1] # p[2] /\ InputStructure \in {p[1], p[2]}}

\* the structures of the final pool that came through the duplicate removal
Deduplicated(pool) ==
    LET enumerated(s) == s # InputStructure
    IN  SelectSeq(pool, enumerated)

NonMagneticInputReturns ==
    (args.structure.ordering = "NM" /\ pc \in {"raised", "returned"}) =>
       /\ input_matches = {}
       /\ InputStructure \notin Range(ordered_structures)
       /\ pc = "returned"
       /\ error = ""

\* ------------------------------------------------ claims on the workflow
RECURSIVE TransitiveClosure(_)
TransitiveClosure(R) ==
    LET next == R \cup {<<pq[1][1], pq[2][2]>> :
                          pq \in {x \in R \X R : x[1][2] = x[2][1]}}
    IN  IF next = R THEN R ELSE TransitiveClosure(next)

\* C2: the workflow built for a pool of n >= 1 structures has 2n + 1
\* Fireworks: for each structure one relaxation without parents whose only
\* child is the structure's one static calculation, which has that
\* relaxation as its only parent; one analysis whose parents are the n static
\* calculations; and the links form no cycle.
WorkflowShape ==
    wf # None =>
      LET g == wf[1]
          n == Len(ordered_structures)
          parents(x) == {l[1] : l \in {k \in g.links : k[2] = x}}
          children(x) == {l[2] : l \in {k \in g.links : k[1] = x}}
          of(name, s) == {x \in g.nodes : fws[x].name = name /\ fws[x].structure = s}
          named(name) == {x \in g.nodes : fws[x].name = name}
      IN  /\ n >= 1
          /\ Cardinality(g.nodes) = 2 * n + 1
          /\ Cardinality(named("optimize")) = n
          /\ Cardinality(named("static")) = n
          /\ Cardinality(named("analysis")) = 1
          /\ \A i \in 1..n :
                /\ Cardinality(of("optimize", ordered_structures[i])) = 1
                /\ Cardinality(of("static", ordered_structures[i])) = 1
                /\ \A r \in of("optimize", ordered_structures[i]) :
                      /\ parents(r) = {}
                      /\ children(r) = of("static", ordered_structures[i])
                /\ \A t \in of("static", ordered_structures[i]) :
                      /\ parents(t) = of("optimize", ordered_structures[i])
                      /\ children(t) = named("analysis")
          /\ \A a \in named("analysis") :
                /\ parents(a) = named("static")
                /\ children(a) = {}
          /\ \A x \in g.nodes : <<x, x>> \notin TransitiveClosure(g.links)

\* a run returned the workflow of a single candidate
WorkflowShapeWitness ==
    /\ pc = "returned"
    /\ Len(ordered_structures) = 1
    /\ Cardinality(result[1].wf.nodes) = 3

\* C10: the settings a relaxation is given disable spin polarization exactly
\* when its own structure is classified non-magnetic, whatever
\* vasp_input_set_kwargs the caller supplied.
SpinPolarizationByCandidate ==
    \A x \in 1..Len(fws) :
       fws[x].name = "optimize" =>
          (/\ "ISPIN" \in DOMAIN fws[x].user_incar_settings
           /\ fws[x].user_incar_settings["ISPIN"] = 1)
             = (fws[x].ordering = "NM")

====
